---- MODULE Spec2Model ----
(***************************************************************************)
(* The scan repository of the waste-scan application (storage.js): the     *)
(* stored collection document, its load / migrate / save cycle and the     *)
(* create / read / update / delete operations on scan records; two browser *)
(* tabs running those operations on one store; the metrics each view       *)
(* (list, editor summary, report) derives from a scan; and the editor's    *)
(* draft with its save / download / print handlers; the settings store     *)
(* holding the API key; the editor's AI analysis of the draft's photo and  *)
(* the classification modal, each with its request to the Gemini API in    *)
(* flight between the click and the continuation after the await.          *)
(*                                                                         *)
(* Modelling conventions.                                                  *)
(*  - A JavaScript object is a record; a property that is absent (or       *)
(*    undefined) is a field that is not in the record's DOMAIN.  JSON      *)
(*    stringify/parse keeps exactly such objects, so the stored document   *)
(*    is the record itself.                                                *)
(*  - null in a string-valued property is the string Null; a null or       *)
(*    missing identifier is 0; identifiers issued by generateUUID are the  *)
(*    positive integers, in the order they were issued.                    *)
(*  - Timestamps (ISO strings compared through new Date) are integers.     *)
(*  - Weights are integers (kg); a percentage is kept in tenths of a       *)
(*    percent, the digits formatPercent prints (toFixed(1)).               *)
(***************************************************************************)
EXTENDS Integers, Sequences, FiniteSets, TLC

\* ---------------------------------------------------------------- bounds
MaxScans == 2
MaxClock == 2
MaxIds == 4
MaxStreams == 3
MaxEditorIds == 3
MaxPending == 2

\* ------------------------------------------------------------- constants
CURRENT_SCHEMA_VERSION == 1

Null == "<null>"
NotFound == [null |-> TRUE]

VARIABLES
  stored,      \* localStorage[STORAGE_KEY]: [kind, schemaVersion, scans]
  now,         \* the wall clock read by new Date()
  nextId,      \* generateUUID: the next identifier it hands out
  deletedIds,  \* history: ids of the scans removed by deleteScan
  ret,         \* the last repository call: [op, arg, val, writes, ok],
               \* ok telling whether its setItem calls went through
  tabs,        \* per browser tab: the mutation it is in the middle of
  currentScan, \* editor.js: the draft being edited (null before loadScan)
  isNewScan,   \* editor.js: the draft has not been created in the store yet
  ui,          \* what the last editor handler gave the user (an alert, a
               \* toast, a report): [op, alert, dropped, report]
  shown,       \* what is on display: the scan rendered by all three views
               \* (scan), the summary panel, the report, the list card
  settings,    \* localStorage[SETTINGS_KEY]: [kind, doc]
  isAnalyzing, \* editor.js: an analysis is running
  pendingAnalyses,
               \* the analyzeWasteImage calls awaited by handleAnalyze, oldest
               \* first: [photo, replaced], replaced telling (history) that
               \* loadScan has put another scan in currentScan since the call
  classificationPhoto,
               \* classification.js: the photo chosen in the modal
  isClassifying,
               \* classification.js: a classification is running
  modal,       \* the classification modal in the page: [open, location,
               \* result], location being the value of its location input
  pendingClassifications
               \* the number of classifyWasteImage calls awaited by
               \* handleClassify

repoVars == <<stored, now, nextId, deletedIds, ret>>
editorVars == <<currentScan, isNewScan, ui>>
analyzeVars == <<isAnalyzing, pendingAnalyses>>
classifyVars == <<classificationPhoto, isClassifying, modal, pendingClassifications>>
aiVars == <<settings, isAnalyzing, pendingAnalyses,
            classificationPhoto, isClassifying, modal, pendingClassifications>>
vars == <<stored, now, nextId, deletedIds, ret, tabs, currentScan, isNewScan, ui, shown,
          settings, isAnalyzing, pendingAnalyses,
          classificationPhoto, isClassifying, modal, pendingClassifications>>

\* ---------------------------------------------------------------- storage
\* localStorage.getItem(STORAGE_KEY) gives nothing, bytes that JSON.parse
\* rejects, or a document.
absentItem == [kind |-> "absent", schemaVersion |-> 0, scans |-> <<>>]
corruptItem == [kind |-> "corrupt", schemaVersion |-> 0, scans |-> <<>>]
storedDoc(data) == [kind |-> "doc", schemaVersion |-> data.schemaVersion, scans |-> data.scans]

getDefaultData == [schemaVersion |-> CURRENT_SCHEMA_VERSION, scans |-> <<>>]

\* The migration chain is empty: the clone is returned as it was read.
migrateSchema(data) == [schemaVersion |-> data.schemaVersion, scans |-> data.scans]

\* saveData whose catch block removes the item instead of leaving it.
saveDataDropsOnFailure(item, data, ok) == IF ok THEN storedDoc(data) ELSE absentItem

\* saveData: the item after localStorage.setItem; a throwing setItem (quota)
\* is caught and leaves the item as it was.
saveData(item, data, ok) == IF ok THEN storedDoc(data) ELSE item

needsMigration(item) == item.kind = "doc" /\ item.schemaVersion < CURRENT_SCHEMA_VERSION

\* loadData whose catch block writes the fallback back to storage.
loadDataResetsCorrupt(item, ok) ==
  IF item.kind = "absent" THEN [data |-> getDefaultData, item |-> item, writes |-> 0]
  ELSE IF item.kind = "corrupt"
       THEN [data |-> getDefaultData, item |-> saveData(item, getDefaultData, ok), writes |-> 1]
  ELSE LET data == [schemaVersion |-> item.schemaVersion, scans |-> item.scans] IN
       IF data.schemaVersion < CURRENT_SCHEMA_VERSION
       THEN LET migrated == migrateSchema(data) IN
            [data |-> migrated, item |-> saveData(item, migrated, ok), writes |-> 1]
       ELSE [data |-> data, item |-> item, writes |-> 0]

\* loadData: the data returned, the item left in storage and the number of
\* setItem calls made.
loadData(item, ok) ==
  IF item.kind = "absent" THEN [data |-> getDefaultData, item |-> item, writes |-> 0]
  ELSE IF item.kind = "corrupt" THEN [data |-> getDefaultData, item |-> item, writes |-> 0]
  ELSE LET data == [schemaVersion |-> item.schemaVersion, scans |-> item.scans] IN
       IF data.schemaVersion < CURRENT_SCHEMA_VERSION
       THEN LET migrated == migrateSchema(data) IN
            [data |-> migrated, item |-> saveData(item, migrated, ok), writes |-> 1]
       ELSE [data |-> data, item |-> item, writes |-> 0]

\* generateUUID: the identifier handed out when the generator stands at n.
generateUUID(n) == n

\* ------------------------------------------------------------ JS helpers
\* o.f || null for a string-valued property: missing, null and '' are falsy.
orNull(o, f) == IF f \in DOMAIN o /\ o[f] # "" /\ o[f] # Null THEN o[f] ELSE Null

\* o.f || 0 for a number-valued property: missing and 0 are falsy.
orZero(o, f) == IF f \in DOMAIN o /\ o[f] # 0 THEN o[f] ELSE 0

\* {...a, ...b}: every property of b replaces or extends a's.
spread(a, b) == [f \in DOMAIN a \cup DOMAIN b |-> IF f \in DOMAIN b THEN b[f] ELSE a[f]]

\* stream.id is truthy.
hasId(stream) == "id" \in DOMAIN stream /\ stream.id # 0

\* normalizeStream without the "stream.id ||": every entry gets a new id.
normalizeStreamFreshId(stream, n) ==
  [id |-> generateUUID(n),
   name |-> stream.name,
   weightKg |-> orZero(stream, "weightKg")]

\* The callback of streams.map in createScan and updateScan, the generator
\* standing at n.
normalizeStream(stream, n) ==
  [id |-> IF hasId(stream) THEN stream.id ELSE generateUUID(n),
   name |-> stream.name,
   weightKg |-> orZero(stream, "weightKg")]

\* streams.map(...): the normalized streams and where the generator stands
\* afterwards.
RECURSIVE normalizeStreams(_, _)
normalizeStreams(streams, n) ==
  IF streams = <<>> THEN [streams |-> <<>>, nextId |-> n]
  ELSE LET first == normalizeStream(Head(streams), n)
           rest == normalizeStreams(Tail(streams), IF hasId(Head(streams)) THEN n ELSE n + 1)
       IN [streams |-> <<first>> \o rest.streams, nextId |-> rest.nextId]

\* scans.findIndex(scan => scan.id === id); 0 stands for -1.
findIndex(scans, id) ==
  IF \E i \in 1..Len(scans) : scans[i].id = id
  THEN CHOOSE i \in 1..Len(scans) : scans[i].id = id /\ \A j \in 1..(i - 1) : scans[j].id # id
  ELSE 0

\* ------------------------------------------------------------- repository
\* compareScans with its operands swapped: earliest first.
compareScansAscending(a, b) ==
  (IF "updatedAt" \in DOMAIN a THEN a.updatedAt ELSE a.createdAt)
    - (IF "updatedAt" \in DOMAIN b THEN b.updatedAt ELSE b.createdAt)

\* Array.prototype.sort is stable; the comparator orders by
\* updatedAt || createdAt, latest first.
sortKey(scan) == IF "updatedAt" \in DOMAIN scan THEN scan.updatedAt ELSE scan.createdAt

compareScans(a, b) == sortKey(b) - sortKey(a)

RECURSIVE insertSorted(_, _)
insertSorted(sorted, x) ==
  IF sorted = <<>> THEN <<x>>
  ELSE IF compareScans(Head(sorted), x) <= 0
       THEN <<Head(sorted)>> \o insertSorted(Tail(sorted), x)
       ELSE <<x>> \o sorted

RECURSIVE sortScans(_)
sortScans(scans) ==
  IF scans = <<>> THEN <<>>
  ELSE insertSorted(sortScans(SubSeq(scans, 1, Len(scans) - 1)), scans[Len(scans)])

getAllScans(data) == sortScans(data.scans)

getScanById(data, id) ==
  IF findIndex(data.scans, id) # 0 THEN data.scans[findIndex(data.scans, id)] ELSE NotFound

\* createScan with notes read from the wrong property.
createScanNotesFromLocation(data, scanData, t, n) ==
  LET normalized == normalizeStreams(IF "streams" \in DOMAIN scanData THEN scanData.streams ELSE <<>>, n + 1)
      newScan == [id |-> generateUUID(n),
                  createdAt |-> t,
                  updatedAt |-> t,
                  location |-> orNull(scanData, "location"),
                  notes |-> orNull(scanData, "location"),
                  photo |-> orNull(scanData, "photo"),
                  totalResidualKg |-> orZero(scanData, "totalResidualKg"),
                  streams |-> normalized.streams]
  IN [scan |-> newScan,
      data |-> [data EXCEPT !.scans = Append(@, newScan)],
      nextId |-> normalized.nextId]

\* createScan on the loaded data at time t, the generator standing at n: the
\* record built, the data to save and where the generator stands afterwards.
createScan(data, scanData, t, n) ==
  LET normalized == normalizeStreams(IF "streams" \in DOMAIN scanData THEN scanData.streams ELSE <<>>, n + 1)
      newScan == [id |-> generateUUID(n),
                  createdAt |-> t,
                  updatedAt |-> t,
                  location |-> orNull(scanData, "location"),
                  notes |-> orNull(scanData, "notes"),
                  photo |-> orNull(scanData, "photo"),
                  totalResidualKg |-> orZero(scanData, "totalResidualKg"),
                  streams |-> normalized.streams]
  IN [scan |-> newScan,
      data |-> [data EXCEPT !.scans = Append(@, newScan)],
      nextId |-> normalized.nextId]

\* updateScan without the early return: an unknown id still reaches saveData.
updateScanSavesAnyway(data, id, updates, t, n) ==
  LET index == findIndex(data.scans, id) IN
  IF index = 0
  THEN [found |-> FALSE, val |-> NotFound, save |-> TRUE, data |-> data, nextId |-> n]
  ELSE LET merged == [spread(data.scans[index], updates) EXCEPT !.updatedAt = t]
           normalized == normalizeStreams(merged.streams, n)
           updatedScan == [merged EXCEPT !.streams = normalized.streams]
       IN [found |-> TRUE, val |-> updatedScan, save |-> TRUE,
           data |-> [data EXCEPT !.scans[index] = updatedScan],
           nextId |-> normalized.nextId]

\* updateScan adding the record as a new scan instead of replacing the one
\* it found.
updateScanAppends(data, id, updates, t, n) ==
  LET c == createScan(data, updates, t, n) IN
  [found |-> TRUE, val |-> c.scan, save |-> TRUE, data |-> c.data, nextId |-> c.nextId]

\* updateScan on the loaded data: what it returns, whether it reaches
\* saveData and with which data, and where the generator stands afterwards.
updateScan(data, id, updates, t, n) ==
  LET index == findIndex(data.scans, id) IN
  IF index = 0
  THEN [found |-> FALSE, val |-> NotFound, save |-> FALSE, data |-> data, nextId |-> n]
  ELSE LET merged == [spread(data.scans[index], updates) EXCEPT !.updatedAt = t]
           normalized == normalizeStreams(merged.streams, n)
           updatedScan == [merged EXCEPT !.streams = normalized.streams]
       IN [found |-> TRUE, val |-> updatedScan, save |-> TRUE,
           data |-> [data EXCEPT !.scans[index] = updatedScan],
           nextId |-> normalized.nextId]

\* deleteScan without the early return: an unknown id still reaches saveData.
deleteScanSavesAnyway(data, id) ==
  LET index == findIndex(data.scans, id) IN
  IF index = 0
  THEN [val |-> FALSE, save |-> TRUE, data |-> data]
  ELSE [val |-> TRUE, save |-> TRUE,
        data |-> [data EXCEPT !.scans = SubSeq(@, 1, index - 1) \o SubSeq(@, index + 1, Len(@))]]

\* deleteScan on the loaded data: what it returns, whether it reaches
\* saveData and with which data (scans.splice(index, 1)).
deleteScan(data, id) ==
  LET index == findIndex(data.scans, id) IN
  IF index = 0
  THEN [val |-> FALSE, save |-> FALSE, data |-> data]
  ELSE [val |-> TRUE, save |-> TRUE,
        data |-> [data EXCEPT !.scans = SubSeq(@, 1, index - 1) \o SubSeq(@, index + 1, Len(@))]]

\* createEmptyScan at time t.
createEmptyScan(t) ==
  [id |-> 0, location |-> "", notes |-> "", photo |-> Null, totalResidualKg |-> 0,
   streams |-> <<>>, createdAt |-> t, updatedAt |-> t]

\* --------------------------------------------------------------- settings
\* The two localStorage keys.
STORAGE_KEY == "seenons_waste_scan"
SETTINGS_KEY == "seenons_settings"

\* localStorage.getItem(SETTINGS_KEY) gives nothing, bytes that JSON.parse
\* rejects, or a document (any object).
absentSettings == [kind |-> "absent", doc |-> [f \in {} |-> 0]]
corruptSettings == [kind |-> "corrupt", doc |-> [f \in {} |-> 0]]
settingsDoc(doc) == [kind |-> "doc", doc |-> doc]

getDefaultSettings == [geminiApiKey |-> Null]

\* loadSettings that never reads what is stored.
loadSettingsIgnoresStored(item) == getDefaultSettings

\* loadSettings: the defaults when nothing is stored or the parse throws, else
\* { ...getDefaultSettings(), ...JSON.parse(stored) }.
loadSettings(item) ==
  IF item.kind = "doc" THEN spread(getDefaultSettings, item.doc) ELSE getDefaultSettings

\* saveSettings: the item after localStorage.setItem; a throwing setItem is
\* caught and leaves the item as it was.
saveSettings(item, doc, ok) == IF ok THEN settingsDoc(doc) ELSE item

\* getApiKey: settings.geminiApiKey || null
getApiKey(item) == orNull(loadSettings(item), "geminiApiKey")

\* setApiKey: settings.geminiApiKey = apiKey || null; saveSettings(settings).
\* The item left under SETTINGS_KEY.
setApiKey(item, apiKey, ok) ==
  saveSettings(item,
               [loadSettings(item) EXCEPT !.geminiApiKey = IF apiKey \in {"", Null} THEN Null ELSE apiKey],
               ok)

\* hasApiKey: !!getApiKey()
hasApiKey(item) == getApiKey(item) # Null

\* The classification modal before it is opened.
closedModal == [open |-> FALSE, location |-> "", result |-> Null]

\* ----------------------------------------------------------------- inputs
\* The drafts handed to createScan: the editor's blank scan, the draft with a
\* negative total, and a filled draft whose streams have no ids yet.
Drafts(t) ==
  { createEmptyScan(t),
    [totalResidualKg |-> -5],
    [location |-> "Depot", notes |-> "", photo |-> "img", totalResidualKg |-> 100,
     streams |-> <<[name |-> "Cardboard", weightKg |-> -3], [name |-> "Glass"]>>] }

emptyPatch == [f \in {} |-> 0]

\* The ids of the scans in the collection.
scanIds(scans) == { scans[i].id : i \in 1..Len(scans) }

\* The updates a caller hands to updateScan when it keeps to the data fields:
\* the empty patch and a negative total.
Updates ==
  { emptyPatch,
    [totalResidualKg |-> -5] }

\* The updates of a caller that also passes createdAt or id, as the editor
\* does (its draft carries every field of the scan, createdAt being what the
\* date input holds): a creation date later than now, and the id of a scan
\* of the collection.
AnyUpdates(scans, t) ==
  Updates \cup { [createdAt |-> t + 1] } \cup { [id |-> x] : x \in scanIds(scans) }

\* The ids a caller may pass: those of the collection and one never issued.
IdInputs(scans, n) == scanIds(scans) \cup {n}

\* The browser tabs open on the store, and a tab between two mutations.
Tabs == {1, 2}
idleTab ==
  [pc |-> "idle", op |-> "none", id |-> 0, data |-> getDefaultData, val |-> NotFound, created |-> {}]

\* No view has rendered anything yet.
nothingShown == [scan |-> NotFound, summary |-> NotFound, report |-> NotFound, card |-> NotFound]

Init ==
  /\ stored \in {absentItem, corruptItem,
                 storedDoc([schemaVersion |-> 0, scans |-> <<>>]),
                 storedDoc(getDefaultData)}
  /\ now = 1
  /\ nextId = 1
  /\ deletedIds = {}
  /\ ret = [op |-> "init", arg |-> <<>>, val |-> <<>>, writes |-> 0, ok |-> TRUE]
  /\ tabs = [tab \in Tabs |-> idleTab]
  /\ currentScan = NotFound
  /\ isNewScan = TRUE
  /\ ui = [op |-> "init", alert |-> FALSE, dropped |-> 0, report |-> NotFound]
  /\ shown = nothingShown
  /\ settings = absentSettings
  /\ isAnalyzing = FALSE
  /\ pendingAnalyses = <<>>
  /\ classificationPhoto = Null
  /\ isClassifying = FALSE
  /\ modal = closedModal
  /\ pendingClassifications = 0

\* Time passes between two calls.
Tick ==
  /\ now < MaxClock
  /\ now' = now + 1
  /\ UNCHANGED <<stored, nextId, deletedIds, ret, tabs, editorVars, aiVars, shown>>

\* A bare loadData call.
LoadData(ok) ==
  LET l == loadData(stored, ok) IN
  /\ stored' = l.item
  /\ ret' = [op |-> "loadData", arg |-> <<>>, val |-> l.data, writes |-> l.writes, ok |-> ok]
  /\ UNCHANGED <<now, nextId, deletedIds, tabs, editorVars, aiVars, shown>>

GetAllScans(ok) ==
  LET l == loadData(stored, ok) IN
  /\ stored' = l.item
  /\ ret' = [op |-> "getAllScans", arg |-> <<>>, val |-> getAllScans(l.data), writes |-> l.writes, ok |-> ok]
  /\ UNCHANGED <<now, nextId, deletedIds, tabs, editorVars, aiVars, shown>>

GetScanById(id, ok) ==
  LET l == loadData(stored, ok) IN
  /\ stored' = l.item
  /\ ret' = [op |-> "getScanById", arg |-> <<>>, val |-> getScanById(l.data, id), writes |-> l.writes, ok |-> ok]
  /\ UNCHANGED <<now, nextId, deletedIds, tabs, editorVars, aiVars, shown>>

CreateScan(scanData, ok) ==
  LET l == loadData(stored, ok)
      c == createScan(l.data, scanData, now, nextId)
  IN /\ Len(l.data.scans) < MaxScans
     /\ c.nextId <= MaxIds + 1
     /\ stored' = saveData(l.item, c.data, ok)
     /\ nextId' = c.nextId
     /\ ret' = [op |-> "createScan", arg |-> [scanData |-> scanData], val |-> c.scan, writes |-> l.writes + 1, ok |-> ok]
     /\ UNCHANGED <<now, deletedIds, tabs, editorVars, aiVars, shown>>

UpdateScan(id, updates, ok) ==
  LET l == loadData(stored, ok)
      u == updateScan(l.data, id, updates, now, nextId)
  IN /\ u.nextId <= MaxIds + 1
     /\ stored' = IF u.save THEN saveData(l.item, u.data, ok) ELSE l.item
     /\ nextId' = u.nextId
     /\ ret' = [op |-> "updateScan",
                arg |-> IF u.found THEN [id |-> id, updates |-> updates] ELSE <<>>,
                val |-> u.val,
                writes |-> l.writes + (IF u.save THEN 1 ELSE 0), ok |-> ok]
     /\ UNCHANGED <<now, deletedIds, tabs, editorVars, aiVars, shown>>

DeleteScan(id, ok) ==
  LET l == loadData(stored, ok)
      d == deleteScan(l.data, id)
  IN /\ stored' = IF d.save THEN saveData(l.item, d.data, ok) ELSE l.item
     /\ deletedIds' = IF d.val /\ ok THEN deletedIds \cup {id} ELSE deletedIds
     /\ ret' = [op |-> "deleteScan", arg |-> <<>>, val |-> d.val,
                writes |-> l.writes + (IF d.save THEN 1 ELSE 0), ok |-> ok]
     /\ UNCHANGED <<now, nextId, tabs, editorVars, aiVars, shown>>

\* The calls that read.
Reads ==
  \/ LoadData(TRUE)
  \/ GetAllScans(TRUE)
  \/ \E id \in IdInputs(stored.scans, nextId) : GetScanById(id, TRUE)

Next ==
  \/ Tick
  \/ Reads
  \/ \E scanData \in Drafts(now) : CreateScan(scanData, TRUE)
  \/ \E id \in IdInputs(stored.scans, nextId), updates \in Updates : UpdateScan(id, updates, TRUE)
  \/ \E id \in IdInputs(stored.scans, nextId) : DeleteScan(id, TRUE)

\* The repository under callers that keep to the data fields in updates.
Spec == Init /\ [][Next]_vars

AnyNext ==
  \/ Tick
  \/ Reads
  \/ \E scanData \in Drafts(now) : CreateScan(scanData, TRUE)
  \/ \E id \in IdInputs(stored.scans, nextId), updates \in AnyUpdates(stored.scans, now) :
        UpdateScan(id, updates, TRUE)
  \/ \E id \in IdInputs(stored.scans, nextId) : DeleteScan(id, TRUE)

\* The repository under callers that pass any field in updates.
AnySpec == Init /\ [][AnyNext]_vars

\* The repository when localStorage.setItem may throw (quota exceeded): each
\* call runs with its writes going through or with its writes failing.  The
\* calls follow each other within one clock reading.
FailNext ==
  \/ \E ok \in BOOLEAN : LoadData(ok)
  \/ \E scanData \in Drafts(now), ok \in BOOLEAN : CreateScan(scanData, ok)
  \/ \E id \in IdInputs(stored.scans, nextId), updates \in Updates, ok \in BOOLEAN :
        UpdateScan(id, updates, ok)
  \/ \E id \in IdInputs(stored.scans, nextId), ok \in BOOLEAN : DeleteScan(id, ok)

FailSpec == Init /\ [][FailNext]_vars

\* ------------------------------------------------------------- two tabs
\* Each tab runs the same script on the one localStorage.  A mutation is
\* synchronous inside its tab, but nothing orders its getItem and its
\* setItem against those of the other tab: a tab first loads and changes its
\* own copy of the collection, and writes the copy back in a later step.

\* createScan up to data.scans.push(newScan).
TabCreateScan(tab, scanData) ==
  LET l == loadData(stored, TRUE)
      c == createScan(l.data, scanData, now, nextId)
  IN /\ tabs[tab].pc = "idle"
     /\ c.nextId <= MaxScans + 1
     /\ stored' = l.item
     /\ nextId' = c.nextId
     /\ tabs' = [tabs EXCEPT ![tab] =
                   [pc |-> "save", op |-> "createScan", id |-> c.scan.id, data |-> c.data,
                    val |-> c.scan, created |-> @.created \cup {c.scan.id}]]
     /\ UNCHANGED <<now, deletedIds, ret, editorVars, aiVars, shown>>

\* updateScan up to data.scans[index] = updatedScan; an unknown id returns
\* null at once.
TabUpdateScan(tab, id, updates) ==
  LET l == loadData(stored, TRUE)
      u == updateScan(l.data, id, updates, now, nextId)
  IN /\ tabs[tab].pc = "idle"
     /\ u.nextId <= MaxIds + 1
     /\ stored' = l.item
     /\ nextId' = u.nextId
     /\ IF u.save
        THEN /\ tabs' = [tabs EXCEPT ![tab] =
                          [@ EXCEPT !.pc = "save", !.op = "updateScan", !.id = id,
                                    !.data = u.data, !.val = u.val]]
             /\ ret' = ret
        ELSE /\ tabs' = tabs
             /\ ret' = [op |-> "updateScan", arg |-> <<>>, val |-> u.val,
                        writes |-> l.writes, ok |-> TRUE]
     /\ UNCHANGED <<now, deletedIds, editorVars, aiVars, shown>>

\* deleteScan up to data.scans.splice(index, 1); an unknown id returns false
\* at once.
TabDeleteScan(tab, id) ==
  LET l == loadData(stored, TRUE)
      d == deleteScan(l.data, id)
  IN /\ tabs[tab].pc = "idle"
     /\ stored' = l.item
     /\ IF d.save
        THEN /\ tabs' = [tabs EXCEPT ![tab] =
                          [@ EXCEPT !.pc = "save", !.op = "deleteScan", !.id = id,
                                    !.data = d.data, !.val = NotFound]]
             /\ ret' = ret
        ELSE /\ tabs' = tabs
             /\ ret' = [op |-> "deleteScan", arg |-> <<>>, val |-> FALSE,
                        writes |-> l.writes, ok |-> TRUE]
     /\ UNCHANGED <<now, nextId, deletedIds, editorVars, aiVars, shown>>

\* The saveData(data) that ends the mutation, and its return.
TabSaveData(tab) ==
  /\ tabs[tab].pc = "save"
  /\ stored' = saveData(stored, tabs[tab].data, TRUE)
  /\ deletedIds' = IF tabs[tab].op = "deleteScan" THEN deletedIds \cup {tabs[tab].id} ELSE deletedIds
  /\ ret' = [op |-> tabs[tab].op, arg |-> <<>>,
             val |-> IF tabs[tab].op = "deleteScan" THEN TRUE ELSE tabs[tab].val,
             writes |-> 1, ok |-> TRUE]
  /\ tabs' = [tabs EXCEPT ![tab] =
                [@ EXCEPT !.pc = "idle", !.op = "none", !.id = 0,
                          !.data = getDefaultData, !.val = NotFound]]
  /\ UNCHANGED <<now, nextId, editorVars, aiVars, shown>>

\* The two tabs work within one clock reading, each creating blank scans.
TabNext ==
  \/ \E tab \in Tabs : TabCreateScan(tab, createEmptyScan(now))
  \/ \E tab \in Tabs, id \in IdInputs(stored.scans, nextId), updates \in Updates :
        TabUpdateScan(tab, id, updates)
  \/ \E tab \in Tabs, id \in IdInputs(stored.scans, nextId) : TabDeleteScan(tab, id)
  \/ \E tab \in Tabs : TabSaveData(tab)

\* Two tabs mutating the one store.
TabSpec == Init /\ [][TabNext]_vars

\* ------------------------------------------------------------------ views
\* The list view, the editor's summary panel and the report each compute the
\* metrics of a scan with their own copy of the expressions.

\* streams.reduce((sum, s) => sum + (s.weightKg || 0), 0)
RECURSIVE sumWeights(_)
sumWeights(streams) ==
  IF streams = <<>> THEN 0
  ELSE orZero(Head(streams), "weightKg") + sumWeights(Tail(streams))

\* x - y without Math.max(0, ...) around it.
differenceUnclamped(x, y) == x - y

\* Math.max(0, x - y)
differenceClamped(x, y) == IF x - y > 0 THEN x - y ELSE 0

\* formatPercent(n / d * 100) for d > 0: the value to one decimal
\* (toFixed(1)), in tenths of a percent.
formatPercent(n, d) ==
  IF n >= 0 THEN (2000 * n + d) \div (2 * d) ELSE 0 - ((2000 * (0 - n) + d) \div (2 * d))

\* formatKg(value): an undefined value prints as 0.0 kg.
formatKg(o, f) == IF f \in DOMAIN o THEN o[f] ELSE 0

\* The share printed for a stream: stream.weightKg / totalResidualKg * 100
\* when the total is positive (NaN, from a missing weight, prints as 0.0%).
streamShare(stream, totalResidualKg) ==
  IF totalResidualKg > 0 /\ "weightKg" \in DOMAIN stream
  THEN formatPercent(stream.weightKg, totalResidualKg)
  ELSE 0

\* streams.map(stream => row)
streamRows(streams, totalResidualKg) ==
  [j \in 1..Len(streams) |->
     [name |-> streams[j].name,
      weightKg |-> formatKg(streams[j], "weightKg"),
      pct |-> streamShare(streams[j], totalResidualKg)]]

\* streams.filter(s => s.name)
RECURSIVE filterNamed(_)
filterNamed(streams) ==
  IF streams = <<>> THEN <<>>
  ELSE IF Head(streams).name # "" THEN <<Head(streams)>> \o filterNamed(Tail(streams))
       ELSE filterNamed(Tail(streams))

\* updateSummary: what the editor's summary panel shows of the draft.
updateSummary(scan) ==
  LET totalResidualKg == orZero(scan, "totalResidualKg")
      extractedKg == sumWeights(scan.streams)
  IN [total |-> totalResidualKg,
      extracted |-> extractedKg,
      remaining |-> differenceClamped(totalResidualKg, extractedKg),
      separation |-> IF totalResidualKg > 0 THEN formatPercent(extractedKg, totalResidualKg) ELSE 0,
      rows |-> streamRows(filterNamed(scan.streams), totalResidualKg),
      warning |-> (extractedKg > totalResidualKg /\ totalResidualKg > 0),
      saveEnabled |-> totalResidualKg > 0]

\* generateReportHtml summing the weights of the named streams only.
generateReportHtmlNamedOnly(scan) ==
  LET totalResidualKg == orZero(scan, "totalResidualKg")
      extractedKg == sumWeights(filterNamed(scan.streams))
  IN [total |-> totalResidualKg,
      extracted |-> extractedKg,
      remaining |-> differenceClamped(totalResidualKg, extractedKg),
      separation |-> IF totalResidualKg > 0 THEN formatPercent(extractedKg, totalResidualKg) ELSE 0,
      rows |-> streamRows(scan.streams, totalResidualKg),
      warning |-> extractedKg > totalResidualKg]

\* generateReportHtml: the figures, the table rows and the warning block of
\* the report.
generateReportHtml(scan) ==
  LET totalResidualKg == orZero(scan, "totalResidualKg")
      extractedKg == sumWeights(scan.streams)
  IN [total |-> totalResidualKg,
      extracted |-> extractedKg,
      remaining |-> differenceClamped(totalResidualKg, extractedKg),
      separation |-> IF totalResidualKg > 0 THEN formatPercent(extractedKg, totalResidualKg) ELSE 0,
      rows |-> streamRows(scan.streams, totalResidualKg),
      warning |-> extractedKg > totalResidualKg]

\* The card of renderList dividing whenever the total is there.
renderCardUnguarded(scan) ==
  LET extractedKg == sumWeights(scan.streams)
  IN [total |-> formatKg(scan, "totalResidualKg"),
      extracted |-> extractedKg,
      separation |-> IF "totalResidualKg" \in DOMAIN scan /\ scan.totalResidualKg # 0
                     THEN formatPercent(extractedKg, scan.totalResidualKg)
                     ELSE extractedKg]

\* The card renderList draws for a scan.
renderCard(scan) ==
  LET extractedKg == sumWeights(scan.streams)
  IN [total |-> formatKg(scan, "totalResidualKg"),
      extracted |-> extractedKg,
      separation |-> IF "totalResidualKg" \in DOMAIN scan /\ scan.totalResidualKg > 0
                     THEN formatPercent(extractedKg, scan.totalResidualKg)
                     ELSE 0]

\* The stream entries the views are given: a row of the editor that has a
\* weight but no name yet, named streams with their weights, and one whose
\* weight was never set.
StreamInputs ==
  { [id |-> 1, name |-> "", weightKg |-> 10],
    [id |-> 2, name |-> "Cardboard", weightKg |-> 30],
    [id |-> 3, name |-> "Metal", weightKg |-> 20],
    [id |-> 4, name |-> "Glass", weightKg |-> 60],
    [id |-> 5, name |-> "Paper"] }

\* Every sequence of at most n stream entries.
RECURSIVE StreamSeqs(_)
StreamSeqs(n) ==
  IF n = 0 THEN {<<>>}
  ELSE StreamSeqs(n - 1) \cup
       { Append(q, e) : q \in { r \in StreamSeqs(n - 1) : Len(r) = n - 1 }, e \in StreamInputs }

\* The scans the views are given: no total, a zero, a negative and a positive
\* one, each with every list of streams.
ViewScans ==
  { [streams |-> q] : q \in StreamSeqs(MaxStreams) } \cup
  { [totalResidualKg |-> t, streams |-> q] : t \in {0, -5, 100}, q \in StreamSeqs(MaxStreams) }

\* The three views render a scan.
ShowScan(scan) ==
  /\ shown = nothingShown
  /\ shown' = [scan |-> scan,
               summary |-> updateSummary(scan),
               report |-> generateReportHtml(scan),
               card |-> renderCard(scan)]
  /\ UNCHANGED <<repoVars, tabs, editorVars, aiVars>>

ViewNext == \E scan \in ViewScans : ShowScan(scan)

\* The views applied to every scan of ViewScans.
ViewSpec == Init /\ [][ViewNext]_vars

\* ----------------------------------------------------------------- editor
\* The handlers of the editor view, each taken as an entry point on the draft
\* in currentScan (whatever the state of the buttons that trigger them).

\* !currentScan.totalResidualKg, the test without its "<= 0" half.
incompleteZeroOnly(scan) ==
  "totalResidualKg" \notin DOMAIN scan \/ scan.totalResidualKg = 0

\* !currentScan.totalResidualKg || currentScan.totalResidualKg <= 0
incomplete(scan) ==
  "totalResidualKg" \notin DOMAIN scan \/ scan.totalResidualKg = 0 \/ scan.totalResidualKg <= 0

\* String.prototype.trim on the names the editor is given.
trim(name) == IF name \in {"", " "} THEN "" ELSE name

\* handleSave's filter letting every row through.
keepAllRows(streams) == streams

\* currentScan.streams.filter(s => s.name && s.name.trim())
RECURSIVE keepNamedRows(_)
keepNamedRows(streams) ==
  IF streams = <<>> THEN <<>>
  ELSE IF Head(streams).name # "" /\ trim(Head(streams).name) # ""
       THEN <<Head(streams)>> \o keepNamedRows(Tail(streams))
       ELSE keepNamedRows(Tail(streams))

\* What a handler leaves in ui.
handled(op, alert, dropped, report) ==
  [op |-> op, alert |-> alert, dropped |-> dropped, report |-> report]

\* A handler that edits the draft tells the user nothing.
quiet == handled("edit", FALSE, 0, NotFound)

\* The summary panel after updateSummary() on the draft.
summaryOf(scan) == [shown EXCEPT !.summary = updateSummary(scan)]

\* loadScan(scanId); 0 stands for a null scanId.
LoadScan(scanId) ==
  LET l == loadData(stored, TRUE)
      found == getScanById(l.data, scanId)
  IN /\ stored' = l.item
     /\ IF scanId # 0
        THEN /\ currentScan' = found
             /\ isNewScan' = (IF found = NotFound THEN isNewScan ELSE FALSE)
             /\ ret' = [op |-> "getScanById", arg |-> <<>>, val |-> found, writes |-> l.writes, ok |-> TRUE]
             /\ ui' = handled("loadScan", found = NotFound, 0, NotFound)
             /\ shown' = IF found = NotFound THEN shown ELSE summaryOf(found)
        ELSE /\ currentScan' = createEmptyScan(now)
             /\ isNewScan' = TRUE
             /\ ret' = ret
             /\ ui' = handled("loadScan", FALSE, 0, NotFound)
             /\ shown' = summaryOf(createEmptyScan(now))
     /\ pendingAnalyses' = [i \in DOMAIN pendingAnalyses |->
                             [pendingAnalyses[i] EXCEPT !.replaced = TRUE]]
     /\ UNCHANGED <<now, nextId, deletedIds, tabs, settings, isAnalyzing, classifyVars>>

\* handleTotalWeightChange with parseNumber(e.target.value) = value.
HandleTotalWeightChange(value) ==
  /\ currentScan # NotFound
  /\ currentScan' = [currentScan EXCEPT !.totalResidualKg = value]
  /\ shown' = summaryOf(currentScan')
  /\ ui' = quiet
  /\ UNCHANGED <<repoVars, tabs, aiVars, isNewScan>>

HandleAddStream ==
  /\ currentScan # NotFound
  /\ Len(currentScan.streams) < MaxStreams
  /\ nextId <= MaxEditorIds
  /\ currentScan' = [currentScan EXCEPT !.streams =
                       Append(@, [id |-> generateUUID(nextId), name |-> "", weightKg |-> 0])]
  /\ nextId' = nextId + 1
  /\ shown' = summaryOf(currentScan')
  /\ ui' = quiet
  /\ UNCHANGED <<stored, now, deletedIds, ret, tabs, aiVars, isNewScan>>

\* handleStreamNameChange / handleCustomNameChange on row index.
HandleStreamNameChange(index, name) ==
  /\ currentScan # NotFound
  /\ index \in 1..Len(currentScan.streams)
  /\ currentScan' = [currentScan EXCEPT !.streams[index].name = name]
  /\ shown' = summaryOf(currentScan')
  /\ ui' = quiet
  /\ UNCHANGED <<repoVars, tabs, aiVars, isNewScan>>

HandleStreamWeightChange(index, value) ==
  /\ currentScan # NotFound
  /\ index \in 1..Len(currentScan.streams)
  /\ currentScan' = [currentScan EXCEPT !.streams[index].weightKg = value]
  /\ shown' = summaryOf(currentScan')
  /\ ui' = quiet
  /\ UNCHANGED <<repoVars, tabs, aiVars, isNewScan>>

HandleRemoveStream(index) ==
  /\ currentScan # NotFound
  /\ index \in 1..Len(currentScan.streams)
  /\ currentScan' = [currentScan EXCEPT !.streams =
                       SubSeq(@, 1, index - 1) \o SubSeq(@, index + 1, Len(@))]
  /\ shown' = summaryOf(currentScan')
  /\ ui' = quiet
  /\ UNCHANGED <<repoVars, tabs, aiVars, isNewScan>>

\* handleSave, its setItem calls going through (ok) or throwing.
HandleSave(ok) ==
  /\ currentScan # NotFound
  /\ IF incomplete(currentScan)
     THEN /\ ui' = handled("handleSave", TRUE, 0, NotFound)
          /\ UNCHANGED <<repoVars, currentScan, isNewScan>>
     ELSE LET filtered == [currentScan EXCEPT !.streams = keepNamedRows(@)]
              dropped == Len(currentScan.streams) - Len(filtered.streams)
              l == loadData(stored, ok)
          IN IF isNewScan
             THEN LET c == createScan(l.data, filtered, now, nextId)
                  IN /\ Len(l.data.scans) < MaxScans
                     /\ c.nextId <= MaxEditorIds + 1
                     /\ stored' = saveData(l.item, c.data, ok)
                     /\ nextId' = c.nextId
                     /\ ret' = [op |-> "createScan", arg |-> [scanData |-> filtered], val |-> c.scan,
                                writes |-> l.writes + 1, ok |-> ok]
                     /\ currentScan' = c.scan
                     /\ isNewScan' = FALSE
                     /\ ui' = handled("handleSave", FALSE, dropped, NotFound)
                     /\ UNCHANGED <<now, deletedIds>>
             ELSE LET u == updateScan(l.data, filtered.id, filtered, now, nextId)
                  IN /\ u.nextId <= MaxEditorIds + 1
                     /\ stored' = IF u.save THEN saveData(l.item, u.data, ok) ELSE l.item
                     /\ nextId' = u.nextId
                     /\ ret' = [op |-> "updateScan",
                                arg |-> IF u.found THEN [id |-> filtered.id, updates |-> filtered] ELSE <<>>,
                                val |-> u.val,
                                writes |-> l.writes + (IF u.save THEN 1 ELSE 0), ok |-> ok]
                     /\ currentScan' = filtered
                     /\ isNewScan' = isNewScan
                     /\ ui' = handled("handleSave", FALSE, dropped, NotFound)
                     /\ UNCHANGED <<now, deletedIds>>
  /\ UNCHANGED <<tabs, aiVars, shown>>

\* handleDownload and handlePrint: the same test, then generateReportHtml.
HandleExport(op) ==
  /\ currentScan # NotFound
  /\ ui' = IF incomplete(currentScan)
           THEN handled(op, TRUE, 0, NotFound)
           ELSE handled(op, FALSE, 0, generateReportHtml(currentScan))
  /\ UNCHANGED <<repoVars, tabs, aiVars, currentScan, isNewScan, shown>>

HandleDownload == HandleExport("handleDownload")

HandlePrint == HandleExport("handlePrint")

\* The names and numbers typed into the editor's inputs.
NameInputs == {"", " ", "Glass"}
TotalInputs == {-5, 100}
WeightInputs == {30}

EditorNext ==
  \/ \E scanId \in scanIds(stored.scans) \cup {0} : LoadScan(scanId)
  \/ \E value \in TotalInputs : HandleTotalWeightChange(value)
  \/ HandleAddStream
  \/ \E index \in 1..MaxStreams, name \in NameInputs : HandleStreamNameChange(index, name)
  \/ \E index \in 1..MaxStreams, value \in WeightInputs : HandleStreamWeightChange(index, value)
  \/ \E index \in 1..MaxStreams : HandleRemoveStream(index)
  \/ HandleSave(TRUE)
  \/ HandleDownload
  \/ HandlePrint

\* The application opened for the first time: nothing is stored yet.
EditorInit == Init /\ stored = absentItem

\* One editor session after another on the store.
EditorSpec == EditorInit /\ [][EditorNext]_vars


\* ---------------------------------------------------------- settings store
\* localStorage.getItem(key) and localStorage.setItem(key, item): the item
\* under the one key is read, and only the item under that key changes.
getItem(key) == IF key = STORAGE_KEY THEN stored ELSE settings

setItem(key, item) ==
  /\ stored' = IF key = STORAGE_KEY THEN item ELSE stored
  /\ settings' = IF key = SETTINGS_KEY THEN item ELSE settings

\* setApiKey(apiKey), called by the settings modal.
SetApiKey(apiKey, ok) ==
  /\ setItem(SETTINGS_KEY, setApiKey(getItem(SETTINGS_KEY), apiKey, ok))
  /\ ret' = [op |-> "setApiKey", arg |-> apiKey, val |-> NotFound, writes |-> 1, ok |-> ok]
  /\ UNCHANGED <<now, nextId, deletedIds, tabs, editorVars, shown, analyzeVars, classifyVars>>

GetApiKey ==
  /\ ret' = [op |-> "getApiKey", arg |-> <<>>, val |-> getApiKey(getItem(SETTINGS_KEY)),
             writes |-> 0, ok |-> TRUE]
  /\ UNCHANGED <<stored, now, nextId, deletedIds, tabs, editorVars, shown, aiVars>>

HasApiKey ==
  /\ ret' = [op |-> "hasApiKey", arg |-> <<>>, val |-> hasApiKey(getItem(SETTINGS_KEY)),
             writes |-> 0, ok |-> TRUE]
  /\ UNCHANGED <<stored, now, nextId, deletedIds, tabs, editorVars, shown, aiVars>>

\* The keys typed into the settings modal (trimmed; an empty input is saved
\* as null), and the documents found under SETTINGS_KEY at start.
ApiKeyInputs == {Null, "", "key1", "key2"}
SettingsItems ==
  { absentSettings, corruptSettings,
    settingsDoc([f \in {} |-> 0]),
    settingsDoc([geminiApiKey |-> ""]),
    settingsDoc([geminiApiKey |-> "key1"]) }

SettingsInit ==
  /\ stored \in {absentItem, storedDoc(getDefaultData)}
  /\ now = 1
  /\ nextId = 1
  /\ deletedIds = {}
  /\ ret = [op |-> "init", arg |-> <<>>, val |-> <<>>, writes |-> 0, ok |-> TRUE]
  /\ tabs = [tab \in Tabs |-> idleTab]
  /\ currentScan = NotFound
  /\ isNewScan = TRUE
  /\ ui = [op |-> "init", alert |-> FALSE, dropped |-> 0, report |-> NotFound]
  /\ shown = nothingShown
  /\ settings \in SettingsItems
  /\ isAnalyzing = FALSE
  /\ pendingAnalyses = <<>>
  /\ classificationPhoto = Null
  /\ isClassifying = FALSE
  /\ modal = closedModal
  /\ pendingClassifications = 0

SettingsNext ==
  \/ \E apiKey \in ApiKeyInputs : SetApiKey(apiKey, TRUE)
  \/ GetApiKey
  \/ HasApiKey
  \/ GetAllScans(TRUE)
  \/ CreateScan(createEmptyScan(now), TRUE)
  \/ \E id \in IdInputs(stored.scans, nextId), updates \in Updates : UpdateScan(id, updates, TRUE)
  \/ \E id \in IdInputs(stored.scans, nextId) : DeleteScan(id, TRUE)

\* The settings store and the repository on the one localStorage.
SettingsSpec == SettingsInit /\ [][SettingsNext]_vars


\* ------------------------------------------------------------- AI analysis
\* analyzeWasteImage (gemini.js) as a function of what the API answers: a
\* response with an error field stands for every failure before the parse
\* (network, HTTP status, MAX_TOKENS, no text, text that is not JSON), any
\* other response is the object JSON.parse returns.  A weight that
\* parseFloat turns into NaN is a weightKg that is absent.

\* String(stream.name || 'Unknown')
nameOrUnknown(stream) ==
  IF "name" \in DOMAIN stream /\ stream.name # "" /\ stream.name # Null
  THEN stream.name ELSE "Unknown"

\* The callback of result.streams.map: parseFloat(stream.weightKg) || 0.
coerceStream(stream) ==
  [name |-> nameOrUnknown(stream), weightKg |-> orZero(stream, "weightKg")]

RECURSIVE coerceStreams(_)
coerceStreams(streams) ==
  IF streams = <<>> THEN <<>>
  ELSE <<coerceStream(Head(streams))>> \o coerceStreams(Tail(streams))

\* The filter letting every entry through.
validStreamsKeepAll(streams) == streams

\* .filter(stream => stream.name && stream.weightKg >= 0)
RECURSIVE validStreams(_)
validStreams(streams) ==
  IF streams = <<>> THEN <<>>
  ELSE IF Head(streams).name # "" /\ Head(streams).weightKg >= 0
       THEN <<Head(streams)>> \o validStreams(Tail(streams))
       ELSE validStreams(Tail(streams))

\* The promise analyzeWasteImage returns is rejected, or resolves to result.
rejected == [rejected |-> TRUE, result |-> NotFound]
resolved(result) == [rejected |-> FALSE, result |-> result]

\* analyzeWasteImage taking a missing streams array for an empty one.
analyzeWasteImageNoShapeCheck(response) ==
  IF "error" \in DOMAIN response THEN rejected
  ELSE LET streams == IF "streams" \in DOMAIN response
                      THEN validStreams(coerceStreams(response.streams)) ELSE <<>>
           total == IF orZero(response, "totalEstimateKg") # 0
                    THEN response.totalEstimateKg ELSE sumWeights(streams)
       IN resolved(spread(response, [streams |-> streams, totalEstimateKg |-> total]))

\* analyzeWasteImage: the validation of the parsed result and what it
\* returns; parseFloat(result.totalEstimateKg) || (the sum of the weights).
analyzeWasteImage(response) ==
  IF "error" \in DOMAIN response THEN rejected
  ELSE IF "streams" \notin DOMAIN response THEN rejected
  ELSE LET streams == validStreams(coerceStreams(response.streams))
           total == IF orZero(response, "totalEstimateKg") # 0
                    THEN response.totalEstimateKg ELSE sumWeights(streams)
       IN resolved(spread(response, [streams |-> streams, totalEstimateKg |-> total]))

\* result.streams.map(stream => ({ id: generateUUID(), name, weightKg })),
\* the generator standing at n.
RECURSIVE withIds(_, _)
withIds(streams, n) ==
  IF streams = <<>> THEN <<>>
  ELSE <<[id |-> generateUUID(n), name |-> Head(streams).name, weightKg |-> Head(streams).weightKg]>>
       \o withIds(Tail(streams), n + 1)

\* What handleAnalyze does to the draft with the result it awaited.
applyResult(scan, result, n) ==
  LET withTotal == IF result.totalEstimateKg > 0
                   THEN spread(scan, [totalResidualKg |-> result.totalEstimateKg])
                   ELSE scan
      withStreams == IF Len(result.streams) > 0
                     THEN spread(withTotal, [streams |-> withIds(result.streams, n)])
                     ELSE withTotal
  IN IF orNull(result, "notes") # Null /\ orNull(scan, "notes") = Null
     THEN spread(withStreams, [notes |-> "AI Analysis: " \o result.notes])
     ELSE withStreams

\* The tests handleAnalyze starts with, without the first.
analyzeEntryNoBusyCheck(busy, scan, apiKey) ==
  IF orNull(scan, "photo") = Null THEN "noPhoto"
  ELSE IF apiKey = Null THEN "noKey"
  ELSE "request"

\* The tests handleAnalyze starts with: it returns at once, alerts, or goes
\* on to the request.
analyzeEntry(busy, scan, apiKey) ==
  IF busy THEN "return"
  ELSE IF orNull(scan, "photo") = Null THEN "noPhoto"
  ELSE IF apiKey = Null THEN "noKey"
  ELSE "request"

\* handleInputChange that also writes the draft to storage (an autosave).
HandleInputChangeSaves(field, value) ==
  /\ currentScan # NotFound
  /\ currentScan' =
       IF field = "scan-location" THEN spread(currentScan, [location |-> IF value = "" THEN Null ELSE value])
       ELSE IF field = "scan-notes" THEN spread(currentScan, [notes |-> IF value = "" THEN Null ELSE value])
       ELSE IF field = "scan-datetime" THEN spread(currentScan, [createdAt |-> value])
       ELSE currentScan
  /\ stored' = saveData(stored, [schemaVersion |-> CURRENT_SCHEMA_VERSION, scans |-> <<currentScan'>>], TRUE)
  /\ ui' = quiet
  /\ UNCHANGED <<now, nextId, deletedIds, ret, tabs, isNewScan, shown, aiVars>>

\* handleInputChange on the location, the notes or the date input.
HandleInputChange(field, value) ==
  /\ currentScan # NotFound
  /\ currentScan' =
       IF field = "scan-location" THEN spread(currentScan, [location |-> IF value = "" THEN Null ELSE value])
       ELSE IF field = "scan-notes" THEN spread(currentScan, [notes |-> IF value = "" THEN Null ELSE value])
       ELSE IF field = "scan-datetime" THEN spread(currentScan, [createdAt |-> value])
       ELSE currentScan
  /\ ui' = quiet
  /\ UNCHANGED <<repoVars, tabs, isNewScan, shown, aiVars>>

\* handlePhotoChange: no file chosen, a file processImage rejects, or a
\* photo; the draft gets the photo when processImage resolves.
HandlePhotoChange(file) ==
  /\ currentScan # NotFound
  /\ IF file = Null THEN /\ ui' = quiet
                         /\ currentScan' = currentScan
     ELSE IF file = "broken" THEN /\ ui' = handled("handlePhotoChange", TRUE, 0, NotFound)
                                   /\ currentScan' = currentScan
     ELSE /\ ui' = quiet
          /\ currentScan' = spread(currentScan, [photo |-> file])
  /\ UNCHANGED <<repoVars, tabs, isNewScan, shown, aiVars>>

HandlePhotoRemove ==
  /\ currentScan # NotFound
  /\ currentScan' = spread(currentScan, [photo |-> Null])
  /\ ui' = quiet
  /\ UNCHANGED <<repoVars, tabs, isNewScan, shown, aiVars>>

\* handleAnalyze up to the await.
HandleAnalyze ==
  LET entry == analyzeEntry(isAnalyzing, currentScan, getApiKey(getItem(SETTINGS_KEY))) IN
  /\ currentScan # NotFound
  /\ IF entry = "request"
     THEN /\ Len(pendingAnalyses) < MaxPending
          /\ isAnalyzing' = TRUE
          /\ pendingAnalyses' = Append(pendingAnalyses, [photo |-> currentScan.photo, replaced |-> FALSE])
          /\ ui' = handled("handleAnalyze", FALSE, 0, NotFound)
     ELSE /\ ui' = handled("handleAnalyze", entry # "return", 0, NotFound)
          /\ UNCHANGED analyzeVars
  /\ UNCHANGED <<repoVars, tabs, currentScan, isNewScan, shown, settings, classifyVars>>

\* handleAnalyze from the await on, the promise of the oldest call settling
\* on the given response.  The draft written to is whatever currentScan
\* holds now; a null currentScan throws into the catch block.
AnalyzeWasteImageSettles(response) ==
  /\ pendingAnalyses # <<>>
  /\ LET a == analyzeWasteImage(response) IN
     /\ IF a.rejected \/ currentScan = NotFound
        THEN /\ ui' = handled("analyzeWasteImage", TRUE, 0, NotFound)
             /\ UNCHANGED <<currentScan, nextId, shown>>
        ELSE /\ nextId + Len(a.result.streams) <= MaxEditorIds + 1
             /\ currentScan' = applyResult(currentScan, a.result, nextId)
             /\ nextId' = nextId + Len(a.result.streams)
             /\ shown' = summaryOf(currentScan')
             /\ ui' = handled("analyzeWasteImage", FALSE, 0, NotFound)
     /\ ret' = [op |-> "analyzeWasteImage",
                arg |-> [response |-> response, request |-> Head(pendingAnalyses)],
                val |-> a, writes |-> 0, ok |-> TRUE]
  /\ isAnalyzing' = FALSE
  /\ pendingAnalyses' = Tail(pendingAnalyses)
  /\ UNCHANGED <<stored, now, deletedIds, tabs, isNewScan, settings, classifyVars>>

\* What the API answers: an error; an object without a streams array; a
\* full result with an unnamed entry; a result with a negative weight, a
\* missing weight and a zero total; and a result that found nothing.
AnalysisResponses ==
  { [error |-> "503"],
    [totalEstimateKg |-> 100],
    [streams |-> <<[name |-> "Glass", weightKg |-> 30], [name |-> "", weightKg |-> 10]>>,
     totalEstimateKg |-> 100, notes |-> "mixed"],
    [streams |-> <<[name |-> "Paper", weightKg |-> -3], [name |-> "Metal"]>>,
     totalEstimateKg |-> 0],
    [streams |-> <<>>, totalEstimateKg |-> 0] }

\* What is typed into the text inputs and chosen in the file input.
TextInputs == {"", "Depot"}
PhotoFiles == {Null, "broken", "img"}

AnalyzeNext ==
  \/ \E scanId \in scanIds(stored.scans) \cup {0} : LoadScan(scanId)
  \/ \E file \in PhotoFiles : HandlePhotoChange(file)
  \/ HandlePhotoRemove
  \/ \E value \in TextInputs : HandleInputChange("scan-notes", value)
  \/ HandleSave(TRUE)
  \/ SetApiKey("key1", TRUE)
  \/ HandleAnalyze
  \/ \E response \in AnalysisResponses : AnalyzeWasteImageSettles(response)

\* The editor with its AI analysis: a request may stay in flight while other
\* handlers run.
AnalyzeSpec == EditorInit /\ [][AnalyzeNext]_vars


\* A scan saved by an earlier session: what createScan made of a blank draft
\* with a total of 100 kg.
savedScan ==
  createScan(getDefaultData, spread(createEmptyScan(1), [totalResidualKg |-> 100]), 1, 1).scan

\* The store holds nothing, or the saved scan in a document written before
\* the schema had a version.
DraftInit ==
  /\ stored \in {absentItem, [kind |-> "doc", schemaVersion |-> 0, scans |-> <<savedScan>>]}
  /\ now = 1
  /\ nextId = 2
  /\ deletedIds = {}
  /\ ret = [op |-> "init", arg |-> <<>>, val |-> <<>>, writes |-> 0, ok |-> TRUE]
  /\ tabs = [tab \in Tabs |-> idleTab]
  /\ currentScan = NotFound
  /\ isNewScan = TRUE
  /\ ui = [op |-> "init", alert |-> FALSE, dropped |-> 0, report |-> NotFound]
  /\ shown = nothingShown
  /\ settings = settingsDoc([geminiApiKey |-> "key1"])
  /\ isAnalyzing = FALSE
  /\ pendingAnalyses = <<>>
  /\ classificationPhoto = Null
  /\ isClassifying = FALSE
  /\ modal = closedModal
  /\ pendingClassifications = 0

\* loadScan and every handler that edits the draft; the stream handlers work
\* on the first row.
DraftNext ==
  \/ \E scanId \in scanIds(stored.scans) \cup {0} : LoadScan(scanId)
  \/ HandleInputChange("scan-location", "Depot")
  \/ HandleInputChange("scan-notes", "Depot")
  \/ HandleInputChange("scan-datetime", MaxClock)
  \/ HandlePhotoChange("img")
  \/ HandlePhotoRemove
  \/ HandleTotalWeightChange(100)
  \/ HandleAddStream
  \/ HandleStreamNameChange(1, "Glass")
  \/ \E value \in WeightInputs : HandleStreamWeightChange(1, value)
  \/ HandleRemoveStream(1)
  \/ HandleAnalyze
  \/ \E response \in AnalysisResponses : AnalyzeWasteImageSettles(response)

\* The draft from loadScan on, before handleSave, under every editing handler.
DraftSpec == DraftInit /\ [][DraftNext]_vars


\* The editor when the scan it holds may be deleted behind its back (the
\* list view of another tab) and when setItem may throw.
SaveNext ==
  \/ \E scanId \in scanIds(stored.scans) \cup {0} : LoadScan(scanId)
  \/ HandleTotalWeightChange(100)
  \/ HandleInputChange("scan-location", "Depot")
  \/ \E ok \in BOOLEAN : HandleSave(ok)
  \/ \E id \in scanIds(stored.scans) : DeleteScan(id, TRUE)

SaveSpec == EditorInit /\ [][SaveNext]_vars

\* ---------------------------------------------------- classification modal
\* The handlers of the classification modal (classification.js), those of
\* the controls inside the modal running while it is open.  The request to
\* the Gemini API stays in flight between handleClassify's await and its
\* continuation.

\* The tests handleClassify starts with: it returns at once, alerts, or goes
\* on to the request.
classifyEntry(busy, location, photo, apiKey) ==
  IF busy THEN "return"
  ELSE IF trim(location) = "" THEN "noLocation"
  ELSE IF photo = Null THEN "noPhoto"
  ELSE IF apiKey = Null THEN "noKey"
  ELSE "request"

OpenClassification ==
  /\ ~modal.open
  /\ IF ~hasApiKey(getItem(SETTINGS_KEY))
     THEN /\ ui' = handled("openClassification", TRUE, 0, NotFound)
          /\ UNCHANGED <<classificationPhoto, modal>>
     ELSE /\ classificationPhoto' = Null
          /\ modal' = [open |-> TRUE, location |-> "", result |-> Null]
          /\ ui' = handled("openClassification", FALSE, 0, NotFound)
  /\ UNCHANGED <<repoVars, tabs, currentScan, isNewScan, shown, settings, analyzeVars,
                 isClassifying, pendingClassifications>>

CloseClassification ==
  /\ modal.open
  /\ modal' = [modal EXCEPT !.open = FALSE]
  /\ classificationPhoto' = Null
  /\ isClassifying' = FALSE
  /\ ui' = handled("closeClassification", FALSE, 0, NotFound)
  /\ UNCHANGED <<repoVars, tabs, currentScan, isNewScan, shown, settings, analyzeVars,
                 pendingClassifications>>

\* The modal's handlePhotoChange: no file chosen, a file processImage
\* rejects, or a photo.
HandleClassificationPhotoChange(file) ==
  /\ modal.open
  /\ IF file = Null THEN /\ ui' = quiet
                         /\ classificationPhoto' = classificationPhoto
     ELSE IF file = "broken" THEN /\ ui' = handled("handlePhotoChange", TRUE, 0, NotFound)
                                   /\ classificationPhoto' = classificationPhoto
     ELSE /\ ui' = quiet
          /\ classificationPhoto' = file
  /\ UNCHANGED <<repoVars, tabs, currentScan, isNewScan, shown, settings, analyzeVars,
                 isClassifying, modal, pendingClassifications>>

\* The modal's handlePhotoRemove.
HandleClassificationPhotoRemove ==
  /\ modal.open
  /\ classificationPhoto' = Null
  /\ ui' = quiet
  /\ UNCHANGED <<repoVars, tabs, currentScan, isNewScan, shown, settings, analyzeVars,
                 isClassifying, modal, pendingClassifications>>

\* Typing into the location input; handleLocationChange only refreshes the
\* classify button.
HandleLocationChange(value) ==
  /\ modal.open
  /\ modal' = [modal EXCEPT !.location = value]
  /\ ui' = quiet
  /\ UNCHANGED <<repoVars, tabs, currentScan, isNewScan, shown, settings, analyzeVars,
                 classificationPhoto, isClassifying, pendingClassifications>>

\* handleClassify up to the await.
HandleClassify ==
  LET entry == classifyEntry(isClassifying, modal.location, classificationPhoto,
                             getApiKey(getItem(SETTINGS_KEY))) IN
  /\ modal.open
  /\ IF entry = "request"
     THEN /\ pendingClassifications < MaxPending
          /\ isClassifying' = TRUE
          /\ pendingClassifications' = pendingClassifications + 1
          /\ modal' = [modal EXCEPT !.result = "loading"]
          /\ ui' = handled("handleClassify", FALSE, 0, NotFound)
     ELSE /\ ui' = handled("handleClassify", entry # "return", 0, NotFound)
          /\ UNCHANGED <<isClassifying, pendingClassifications, modal>>
  /\ UNCHANGED <<repoVars, tabs, currentScan, isNewScan, shown, settings, analyzeVars,
                 classificationPhoto>>

\* handleClassify from the await on: the promise of a pending call settles
\* on a failure or on { markdown }.
ClassifyWasteImageSettles(response) ==
  /\ pendingClassifications > 0
  /\ IF "error" \in DOMAIN response
     THEN /\ ui' = handled("classifyWasteImage", TRUE, 0, NotFound)
          /\ modal' = modal
     ELSE /\ ui' = handled("classifyWasteImage", FALSE, 0, NotFound)
          /\ modal' = [modal EXCEPT !.result = response.markdown]
  /\ isClassifying' = FALSE
  /\ pendingClassifications' = pendingClassifications - 1
  /\ UNCHANGED <<repoVars, tabs, currentScan, isNewScan, shown, settings, analyzeVars,
                 classificationPhoto>>

ClassificationResponses == { [error |-> "503"], [markdown |-> "advice"] }
LocationInputs == {"", " ", "Utrecht"}

ClassifyNext ==
  \/ SetApiKey("key1", TRUE)
  \/ OpenClassification
  \/ CloseClassification
  \/ \E file \in PhotoFiles : HandleClassificationPhotoChange(file)
  \/ HandleClassificationPhotoRemove
  \/ \E value \in LocationInputs : HandleLocationChange(value)
  \/ HandleClassify
  \/ \E response \in ClassificationResponses : ClassifyWasteImageSettles(response)

\* The classification modal under every interleaving of its handlers and of
\* the API's answers.
ClassifySpec == Init /\ [][ClassifyNext]_vars

\* ================================================================ claims
\* The data the repository would load from what is stored.
storedData == loadData(stored, TRUE).data

dataFields == {"location", "notes", "photo", "totalResidualKg"}

\* C1: when loadData reads a document below the current schema version, the
\* document it returns and the one it writes back carry the current version,
\* and a second loadData neither migrates nor writes.
C1_MigrationFixedPoint ==
  (ret.op = "loadData" /\ ret.writes > 0) =>
     /\ ret.val.schemaVersion = CURRENT_SCHEMA_VERSION
     /\ stored.schemaVersion = CURRENT_SCHEMA_VERSION
     /\ loadData(stored, TRUE).writes = 0

\* C2: no stored scan has a negative totalResidualKg and no stored stream a
\* negative weightKg.
C2_NoNegativeWeight ==
  \A i \in 1..Len(stored.scans) :
     /\ stored.scans[i].totalResidualKg >= 0
     /\ \A j \in 1..Len(stored.scans[i].streams) : stored.scans[i].streams[j].weightKg >= 0

\* C3: an updateScan that finds its scan leaves the record's id and createdAt
\* as they were, whatever the updates carry.
C3_UpdateKeepsIdAndCreatedAt ==
  [][(ret'.op = "updateScan" /\ ret'.arg # <<>> /\ stored' # stored) =>
       LET i == findIndex(stored.scans, ret'.arg.id) IN
         /\ i # 0
         /\ stored'.scans[i].id = stored.scans[i].id
         /\ stored'.scans[i].createdAt = stored.scans[i].createdAt]_vars

\* C4: every stored scan has updatedAt >= createdAt.
C4_UpdatedNotBeforeCreated ==
  \A i \in 1..Len(stored.scans) : stored.scans[i].updatedAt >= stored.scans[i].createdAt

\* C5: updateScan(id, {}) changes nothing but the updatedAt of the scan it
\* finds: its other fields, its streams and every other scan stay as they were.
C5_EmptyPatchOnlyUpdatedAt ==
  [][(ret'.op = "updateScan" /\ ret'.arg # <<>> /\ stored' # stored
        /\ DOMAIN ret'.arg.updates = {}) =>
       LET i == findIndex(stored.scans, ret'.arg.id) IN
         /\ i # 0
         /\ stored'.kind = "doc"
         /\ Len(stored'.scans) = Len(stored.scans)
         /\ \A j \in 1..Len(stored.scans) : j # i => stored'.scans[j] = stored.scans[j]
         /\ DOMAIN stored'.scans[i] = DOMAIN stored.scans[i]
         /\ \A f \in DOMAIN stored.scans[i] \ {"updatedAt"} :
               stored'.scans[i][f] = stored.scans[i][f]]_vars

C5_Witness ==
  /\ ret.op = "updateScan"
  /\ ret.arg # <<>>
  /\ DOMAIN ret.arg.updates = {}
  /\ Len(stored.scans) = 2
  /\ Len(ret.val.streams) = 2
  /\ ret.val.updatedAt > ret.val.createdAt

\* The streams of a draft: scanData.streams || [].
draftStreams(d) == IF "streams" \in DOMAIN d THEN d.streams ELSE <<>>

touchedAt(scan) == IF "updatedAt" \in DOMAIN scan THEN scan.updatedAt ELSE scan.createdAt

\* result lists every element of scans exactly once, latest touched first,
\* equally touched ones in the order they have in scans.
sortedStably(result, scans) ==
  /\ Len(result) = Len(scans)
  /\ \E p \in [1..Len(scans) -> 1..Len(scans)] :
        /\ \A i, j \in 1..Len(scans) : i # j => p[i] # p[j]
        /\ \A i \in 1..Len(scans) : result[i] = scans[p[i]]
        /\ \A i, j \in 1..Len(scans) :
              i < j => /\ touchedAt(result[i]) >= touchedAt(result[j])
                       /\ touchedAt(result[i]) = touchedAt(result[j]) => p[i] < p[j]

\* C7: getAllScans returns every stored scan exactly once, in non-increasing
\* order of updatedAt, scans of equal time in their insertion order.
C7_ListSortedStable ==
  ret.op = "getAllScans" => sortedStably(ret.val, storedData.scans)

C7_Witness ==
  /\ ret.op = "getAllScans"
  /\ Len(ret.val) = 2
  /\ ret.val[1] = stored.scans[2]
  /\ ret.val[1].updatedAt > ret.val[2].updatedAt

\* Every stream entry of the collection, by scan and position.
streamSlots(scans) ==
  UNION { { <<i, j>> : j \in 1..Len(scans[i].streams) } : i \in 1..Len(scans) }

\* C8: no two stored scans share an id, no two stored stream entries share an
\* id, and no stored scan carries the id of a deleted scan.
C8_IdsUnique ==
  /\ \A i, j \in 1..Len(stored.scans) : i # j => stored.scans[i].id # stored.scans[j].id
  /\ \A a, b \in streamSlots(stored.scans) :
        a # b => stored.scans[a[1]].streams[a[2]].id # stored.scans[b[1]].streams[b[2]].id
  /\ \A i \in 1..Len(stored.scans) : stored.scans[i].id \notin deletedIds

\* C9 as stated: a deleteScan that returns false has called setItem not once
\* and left the stored item as it was.
C9_DeleteUnknownNoWrite ==
  [][(ret'.op = "deleteScan" /\ ~ret'.val) => (ret'.writes = 0 /\ stored' = stored)]_vars

\* C9 as amended: a deleteScan that returns false leaves the stored item as it
\* was, and calls setItem only for loadData's write-back of a document below
\* the current schema version.
C9_DeleteUnknownUnchanged ==
  [][(ret'.op = "deleteScan" /\ ~ret'.val) =>
       /\ stored' = stored
       /\ ret'.writes = (IF needsMigration(stored) THEN 1 ELSE 0)]_vars

C9_Witness ==
  /\ ret.op = "deleteScan"
  /\ ~ret.val
  /\ ret.writes = 0
  /\ Len(stored.scans) > 0

\* C10 as stated: an updateScan that returns null has called setItem not once
\* and left the stored item as it was.
C10_UpdateUnknownNoWrite ==
  [][(ret'.op = "updateScan" /\ ret'.val = NotFound) => (ret'.writes = 0 /\ stored' = stored)]_vars

\* C10 as amended: an updateScan that returns null leaves the stored item as
\* it was, and calls setItem only for loadData's write-back of a document
\* below the current schema version.
C10_UpdateUnknownUnchanged ==
  [][(ret'.op = "updateScan" /\ ret'.val = NotFound) =>
       /\ stored' = stored
       /\ ret'.writes = (IF needsMigration(stored) THEN 1 ELSE 0)]_vars

C10_Witness ==
  /\ ret.op = "updateScan"
  /\ ret.val = NotFound
  /\ ret.writes = 0
  /\ Len(stored.scans) > 0

\* The scans of the stored collection, as a set.
storedScans(item) == { item.scans[i] : i \in 1..Len(item.scans) }

\* C11: when a createScan or updateScan whose write failed is followed by a
\* createScan, or an updateScan of another scan, whose write succeeds, the
\* collection then stored also holds the record the failed call had built.
C11_FailedChangePersistedLater ==
  [][(/\ ret.op \in {"createScan", "updateScan"}
      /\ ~ret.ok
      /\ ret.val # NotFound
      /\ ret'.ok
      /\ \/ ret'.op = "createScan"
         \/ /\ ret'.op = "updateScan"
            /\ ret'.arg # <<>>
            /\ ret'.arg.id # ret.val.id)
       => ret.val \in storedScans(stored')]_vars

\* (A step that leaves the clock alone is a repository call.)
\* C12: a createScan, updateScan or deleteScan whose setItem throws still
\* returns its value (a scan record, null, or a boolean) and leaves the
\* stored item exactly as it was before the call.
C12_FailedWriteNotFatal ==
  [][(now' = now /\ ~ret'.ok /\ ret'.op \in {"createScan", "updateScan", "deleteScan"}) =>
       /\ stored' = stored
       /\ ret'.op = "createScan" => "id" \in DOMAIN ret'.val
       /\ ret'.op = "updateScan" => (ret'.val = NotFound \/ "id" \in DOMAIN ret'.val)
       /\ ret'.op = "deleteScan" => ret'.val \in BOOLEAN]_vars

C12_Witness ==
  /\ ret.op = "deleteScan"
  /\ ~ret.ok
  /\ ret.val
  /\ ret.writes = 1
  /\ Len(stored.scans) = 2

\* C13: while the stored item does not parse, loadData gives the empty
\* collection at the current schema version, getAllScans the empty list,
\* getScanById and updateScan null and deleteScan false, each leaving the
\* item as it is; a createScan replaces it by a document holding just the
\* scan created.
C13_CorruptStoreActsEmpty ==
  [][(stored.kind = "corrupt" /\ now' = now) =>
       /\ ret'.op = "loadData" => (ret'.val = getDefaultData /\ stored' = stored)
       /\ ret'.op = "getAllScans" => (ret'.val = <<>> /\ stored' = stored)
       /\ ret'.op = "getScanById" => (ret'.val = NotFound /\ stored' = stored)
       /\ ret'.op = "updateScan" => (ret'.val = NotFound /\ stored' = stored /\ ret'.writes = 0)
       /\ ret'.op = "deleteScan" => (ret'.val = FALSE /\ stored' = stored /\ ret'.writes = 0)
       /\ (ret'.op = "createScan" /\ ret'.ok) =>
             stored' = storedDoc([schemaVersion |-> CURRENT_SCHEMA_VERSION, scans |-> <<ret'.val>>])]_vars

C13_Witness ==
  /\ stored.kind = "corrupt"
  /\ ret.op = "updateScan"
  /\ ret.val = NotFound
  /\ now = 2

\* C14: mutations of two tabs on one store do not lose each other's work:
\* once both tabs are between mutations, every scan a tab created and no tab
\* deleted is in the stored collection.
C14_NoLostUpdate ==
  (\A tab \in Tabs : tabs[tab].pc = "idle") =>
     \A tab \in Tabs : (tabs[tab].created \ deletedIds) \subseteq scanIds(stored.scans)

\* The three views have rendered a scan.
isShown == shown.scan # NotFound

\* The total of the scan shown, 0 standing for a missing one.
shownTotal == IF "totalResidualKg" \in DOMAIN shown.scan THEN shown.scan.totalResidualKg ELSE 0

\* The weights of the scan shown added up, a missing weight counting 0.
RECURSIVE addUp(_, _)
addUp(streams, j) ==
  IF j = 0 THEN 0
  ELSE addUp(streams, j - 1) + (IF "weightKg" \in DOMAIN streams[j] THEN streams[j].weightKg ELSE 0)

shownExtracted == addUp(shown.scan.streams, Len(shown.scan.streams))

\* C15: the remaining residual in the editor summary and in the report is
\* the total minus the extracted weight when that is positive and 0
\* otherwise, so never negative.
C15_RemainingNeverNegative ==
  isShown =>
    LET expected == IF shownTotal - shownExtracted > 0 THEN shownTotal - shownExtracted ELSE 0 IN
      /\ shown.summary.remaining >= 0
      /\ shown.report.remaining >= 0
      /\ shown.summary.remaining = expected
      /\ shown.report.remaining = expected

C15_Witness ==
  /\ isShown
  /\ shownTotal = 100
  /\ shownExtracted = 110
  /\ shown.summary.extracted = 110
  /\ shown.summary.remaining = 0
  /\ shown.report.remaining = 0

\* C16: for a scan whose total is 0 or missing, the separation percentage is
\* 0 in the list card, the editor summary and the report, and the share of
\* every stream row is 0 in the editor summary and the report.
C16_ZeroTotalZeroPercent ==
  (isShown /\ shownTotal = 0) =>
     /\ shown.card.separation = 0
     /\ shown.summary.separation = 0
     /\ shown.report.separation = 0
     /\ \A j \in 1..Len(shown.summary.rows) : shown.summary.rows[j].pct = 0
     /\ Len(shown.report.rows) = Len(shown.scan.streams)
     /\ \A j \in 1..Len(shown.report.rows) : shown.report.rows[j].pct = 0

C16_Witness ==
  /\ isShown
  /\ "totalResidualKg" \notin DOMAIN shown.scan
  /\ shownExtracted = 90
  /\ Len(shown.summary.rows) = 2
  /\ Len(shown.report.rows) = 2

C18_WarningIffOverExtracted ==
  isShown =>
     /\ shown.report.warning <=> (shownExtracted > shownTotal /\ shownTotal > 0)
     /\ shown.report.warning <=> shown.summary.warning

\* The total of a draft, 0 standing for a missing one.
totalOf(scan) == IF "totalResidualKg" \in DOMAIN scan THEN scan.totalResidualKg ELSE 0

\* C19: handleSave, handleDownload and handlePrint on a draft whose total is
\* zero, missing or negative show an alert and nothing else happens: the
\* stored item, the identifier generator, the draft and isNewScan stay as
\* they were and no report is generated; and every scan the editor has
\* stored has a positive total.
C19_IncompleteRejected ==
  /\ [][(/\ ui'.op \in {"handleSave", "handleDownload", "handlePrint"}
         /\ currentScan # NotFound
         /\ totalOf(currentScan) <= 0)
        => /\ ui'.alert
           /\ ui'.report = NotFound
           /\ stored' = stored
           /\ nextId' = nextId
           /\ currentScan' = currentScan
           /\ isNewScan' = isNewScan]_vars
  /\ [](\A i \in 1..Len(stored.scans) : stored.scans[i].totalResidualKg > 0)

C19_Witness ==
  /\ ui.op = "handleSave"
  /\ ui.alert
  /\ ~isNewScan
  /\ currentScan # NotFound
  /\ totalOf(currentScan) = -5
  /\ Len(currentScan.streams) = 2
  /\ Len(stored.scans) = 1
  /\ stored.scans[1].totalResidualKg = 100

\* C20: no stream of a scan stored by the editor has an empty (or blank)
\* name, and after a handleSave that went through neither has the draft.
C20_NoEmptyNameStored ==
  /\ \A i \in 1..Len(stored.scans) : \A j \in 1..Len(stored.scans[i].streams) :
        /\ stored.scans[i].streams[j].name # ""
        /\ trim(stored.scans[i].streams[j].name) # ""
  /\ (ui.op = "handleSave" /\ ~ui.alert) =>
        \A j \in 1..Len(currentScan.streams) : currentScan.streams[j].name # ""

C20_Witness ==
  /\ ui.op = "handleSave"
  /\ ~ui.alert
  /\ ui.dropped > 0
  /\ ret.op = "createScan"
  /\ Len(ret.val.streams) = 1
  /\ ret.val \in storedScans(stored)
  /\ currentScan = ret.val


\* The key a call of getApiKey would return, given the key handed to
\* setApiKey.
keyKept(apiKey) == IF apiKey \in {"", Null} THEN Null ELSE apiKey

scanOps == {"loadData", "getAllScans", "getScanById", "createScan", "updateScan", "deleteScan"}

C21_DraftEditsNotStored ==
  [][ui'.op # "loadScan" => stored' = stored]_vars

C21_Witness ==
  /\ ~isNewScan
  /\ currentScan # NotFound
  /\ ui.op = "analyzeWasteImage"
  /\ ~ui.alert
  /\ Len(currentScan.streams) = 2
  /\ currentScan.location = "Depot"
  /\ currentScan.photo = "img"
  /\ Len(stored.scans) = 1
  /\ stored.scans[1].id = currentScan.id
  /\ stored.scans[1].streams = <<>>
  /\ stored.scans[1].photo = Null

\* This step is the continuation of handleAnalyze after its await.
settles == Len(pendingAnalyses') = Len(pendingAnalyses) - 1

\* The streams without their ids.
namesWeights(streams) ==
  [i \in 1..Len(streams) |-> [name |-> streams[i].name, weightKg |-> streams[i].weightKg]]

\* C22: after handleAnalyze completes successfully, the draft's streams are
\* exactly the result's streams and its totalResidualKg is the result's
\* totalEstimateKg, for every result, one with an empty stream list or a zero
\* total included.
C22_ResultReplacesDraft ==
  [][(settles /\ ~ui'.alert) =>
       /\ namesWeights(currentScan'.streams) = ret'.val.result.streams
       /\ currentScan'.totalResidualKg = ret'.val.result.totalEstimateKg]_vars

\* What the code makes of the entries the API returned: an entry with a
\* negative weight is dropped, a missing or empty name becomes 'Unknown', a
\* missing (or non-numeric) weight becomes 0.
RECURSIVE keptEntries(_)
keptEntries(entries) ==
  IF entries = <<>> THEN <<>>
  ELSE LET e == Head(entries) IN
       IF "weightKg" \in DOMAIN e /\ e.weightKg < 0 THEN keptEntries(Tail(entries))
       ELSE <<[name |-> IF "name" \in DOMAIN e /\ e.name \notin {"", Null} THEN e.name ELSE "Unknown",
               weightKg |-> IF "weightKg" \in DOMAIN e THEN e.weightKg ELSE 0]>>
            \o keptEntries(Tail(entries))

\* What the claim says is made of them: an entry with an empty name is
\* discarded, every other entry is kept with a weight that is not negative.
RECURSIVE claimedEntries(_)
claimedEntries(entries) ==
  IF entries = <<>> THEN <<>>
  ELSE LET e == Head(entries) IN
       IF "name" \notin DOMAIN e \/ e.name \in {"", Null} THEN claimedEntries(Tail(entries))
       ELSE <<[name |-> e.name,
               weightKg |-> IF "weightKg" \in DOMAIN e /\ e.weightKg > 0 THEN e.weightKg ELSE 0]>>
            \o claimedEntries(Tail(entries))

\* The result of this step was applied to the draft's stream list.
appliesStreams == settles /\ ~ui'.alert /\ Len(ret'.val.result.streams) > 0

failsCall(response) == "error" \in DOMAIN response \/ "streams" \notin DOMAIN response

\* The response has an entry whose weight is not a number.
hasNonNumericWeight(response) ==
  /\ "streams" \in DOMAIN response
  /\ \E i \in 1..Len(response.streams) : "weightKg" \notin DOMAIN response.streams[i]

C28_ResultForAnalysedScanOnly ==
  [][(settles /\ ret'.arg.request.replaced) => currentScan' = currentScan]_vars

\* C29: at most one analyzeWasteImage call is pending; isAnalyzing is true
\* exactly while one is; handleAnalyze while isAnalyzing starts no request;
\* isAnalyzing is false once the pending call has resolved or rejected.
C29_OneAnalysisAtATime ==
  /\ [](Len(pendingAnalyses) <= 1)
  /\ [](isAnalyzing <=> Len(pendingAnalyses) = 1)
  /\ [][(ui'.op = "handleAnalyze" /\ isAnalyzing) => pendingAnalyses' = pendingAnalyses]_vars
  /\ [][settles => ~isAnalyzing']_vars

C29_Witness ==
  /\ isAnalyzing
  /\ Len(pendingAnalyses) = 1
  /\ pendingAnalyses[1].replaced
  /\ ui.op = "handleAnalyze"
  /\ ~ui.alert


\* This step is a handleSave that got past its test of the total.
saves == ui'.op = "handleSave" /\ ~ui'.alert /\ ret'.op \in {"createScan", "updateScan"}

draftStored ==
  \E i \in 1..Len(stored.scans) :
    /\ stored.scans[i].id = currentScan.id
    /\ \A f \in {"createdAt", "location", "notes", "photo", "totalResidualKg", "streams"} :
         stored.scans[i][f] = currentScan[f]

\* C27: whenever handleSave shows 'Scan saved successfully', the stored
\* collection holds a scan with the draft's id and the draft's fields, also
\* when the scan was deleted from the store after it was loaded and when the
\* storage write fails.
C27_ReportedSaveIsReal ==
  [][saves => draftStored']_vars

\* C30: at most one classifyWasteImage call is pending under every
\* interleaving of opening and closing the modal, choosing a photo, typing a
\* location and clicking classify; and no action of the modal changes what
\* is stored.
C30_OneClassificationAtATime ==
  /\ [](pendingClassifications <= 1)
  /\ [][stored' = stored]_vars
====
